---- MODULE Spec2Model ----
(***************************************************************************)
(* hg2ecz/rpncalc: the single-pass parser (src/src/parser.rs) and the      *)
(* stack machine (src/src/runner.rs) of the RPN calculator, with the read  *)
(* loop of src/src/main.rs feeding it lines.                                *)
(*                                                                         *)
(* Program addresses are 0-based as in the code; TLA+ sequences are        *)
(* 1-based, so the instruction at address a is prog[a + 1].                 *)
(* f64 values are modelled by integers (the literals and results used are  *)
(* integral); `x as usize` is the saturating cast of Rust.                 *)
(***************************************************************************)
EXTENDS Integers, Sequences, FiniteSets, TLC

\* ------------------------------------------------------------- bounds
\* MAX_STACK of runner.rs:5 is 1_000_000; the model runs the same comparison
\* against a small limit so that the full-stack paths are reachable.
MAX_STACK == 5
\* Largest magnitude of a number the model lets a step produce.
MaxVal == 25
\* Deepest return stack the model lets a Call build.
MaxRet == 3
\* How many times the Ctrl-C handler fires in one behaviour.
MaxCtrlC == 1
\* Fuel of the big-step evaluation RunLine (steps of one line).
MaxFuel == 60

\* ------------------------------------------------------------- values
\* StackType: None | Double(f64) | Complex(Complex<f64>)
None == [t |-> "None", re |-> 0, im |-> 0]
Double(x) == [t |-> "Double", re |-> x, im |-> 0]
Complex(a, b) == [t |-> "Complex", re |-> a, im |-> b]

Front(s) == SubSeq(s, 1, Len(s) - 1)
Last(s) == s[Len(s)]

\* `x as usize` on an f64: negative values saturate to 0.
AsUsize(x) == IF x < 0 THEN 0 ELSE x

\* ------------------------------------------------------------- instructions
Ins(op) == [op |-> op, addr |-> 0, reg |-> "", lit |-> None]
Literal(v) == [op |-> "Literal", addr |-> 0, reg |-> "", lit |-> v]
Call(a) == [op |-> "Call", addr |-> a, reg |-> "", lit |-> None]
Jnz(a) == [op |-> "Jnz", addr |-> a, reg |-> "", lit |-> None]
RegIns(op, x) == [op |-> op, addr |-> 0, reg |-> x, lit |-> None]

\* The register and vector banks have 256 slots, indexed by the byte that
\* ends the mnemonic; the model keeps the slots its tokens can name.
RegIds == {"a", "b"}

\* ------------------------------------------------------------- runner helpers
\* A machine m is the record [p, r, stopped, mode, line, cont, loc, lastout]:
\*   p    the Parser's fields, r the Runner's fields, stopped the AtomicBool,
\*   mode where control is: "idle" (main's read loop), "parse" (the token loop
\*        of parse_line), "run" (the while loop of Runner::run), "dead" (the
\*        process panicked), "exit" (process::exit),
\*   line the tokens of the current line not yet processed,
\*   cont who called run: "colon" (parser.rs:184) or "eol" (parser.rs:269),
\*   loc  the locals of run: spc, accu, err, and brk (the loop was left by break),
\*   lastout the last value written by Print.

AccuLast(m) ==
  IF m.r.stack = <<>> THEN [ok |-> FALSE, val |-> None]
  ELSE [ok |-> TRUE, val |-> m.loc.accu]

AccuPop(m) ==
  IF m.r.stack = <<>> THEN [ok |-> FALSE, val |-> None, m |-> m]
  ELSE [ok |-> TRUE, val |-> m.loc.accu,
        m |-> [m EXCEPT !.loc.accu = Last(m.r.stack),
                        !.r.stack = Front(m.r.stack)]]

\* accu_push together with the caller's `err |= ...`
AccuPush(m, num) ==
  LET s == Append(m.r.stack, m.loc.accu) IN
  [m EXCEPT !.r.stack = s, !.loc.accu = num,
            !.loc.err = m.loc.err \/ (Len(s) >= MAX_STACK)]

Brk(m) == [m EXCEPT !.loc.brk = TRUE]

DoublePop(m) ==
  LET a == AccuPop(m) IN
  IF ~a.ok THEN [ok |-> FALSE, val |-> 0, m |-> m]
  ELSE IF a.val.t # "Double" THEN [ok |-> FALSE, val |-> 0, m |-> a.m]
  ELSE [ok |-> TRUE, val |-> a.val.re, m |-> a.m]

DoubleLast(m) ==
  IF m.r.stack = <<>> THEN [ok |-> FALSE, val |-> 0]
  ELSE IF m.loc.accu.t # "Double" THEN [ok |-> FALSE, val |-> 0]
  ELSE [ok |-> TRUE, val |-> m.loc.accu.re]

\* A get_samenum that takes pairs of one variant only.
GetSamenumSameVariant(m) ==
  LET a == AccuPop(m) IN
  IF ~a.ok THEN [ok |-> FALSE, a |-> None, b |-> None, m |-> m]
  ELSE IF a.m.r.stack = <<>> THEN [ok |-> FALSE, a |-> None, b |-> None, m |-> a.m]
  ELSE LET b == a.m.loc.accu IN
       IF a.val.t = "None" \/ b.t # a.val.t
       THEN [ok |-> FALSE, a |-> None, b |-> None, m |-> a.m]
       ELSE [ok |-> TRUE, a |-> a.val, b |-> b, m |-> a.m]

\* get_samenum: pops a, peeks b, and promotes a mixed pair to Complex.
GetSamenum(m) ==
  LET a == AccuPop(m) IN
  IF ~a.ok THEN [ok |-> FALSE, a |-> None, b |-> None, m |-> m]
  ELSE IF a.m.r.stack = <<>> THEN [ok |-> FALSE, a |-> None, b |-> None, m |-> a.m]
  ELSE LET b == a.m.loc.accu IN
       IF a.val.t = "None" \/ b.t = "None"
       THEN [ok |-> FALSE, a |-> None, b |-> None, m |-> a.m]
       ELSE IF a.val.t = "Double" /\ b.t = "Double"
       THEN [ok |-> TRUE, a |-> a.val, b |-> b, m |-> a.m]
       ELSE [ok |-> TRUE, a |-> Complex(a.val.re, a.val.im),
             b |-> Complex(b.re, b.im), m |-> a.m]

\* ------------------------------------------------------------- Runner::run, one match arm each
Fetch(m) == m.r.prog[m.loc.spc + 1]

ExecLiteral(m, i) == AccuPush(m, i.lit)

\* `continue`: the caller does not increment spc after a Call.
ExecCall(m, i) ==
  [m EXCEPT !.r.ret_stack = Append(m.r.ret_stack, m.loc.spc), !.loc.spc = i.addr]

\* A Ret that goes on with the next instruction when there is nothing to pop.
ExecRetFallsThrough(m) ==
  IF m.r.ret_stack = <<>> THEN m
  ELSE [m EXCEPT !.loc.spc = Last(m.r.ret_stack),
                 !.r.ret_stack = Front(m.r.ret_stack)]

\* A Ret that takes the oldest return address instead of the newest.
ExecRetOldestFirst(m) ==
  IF m.r.ret_stack = <<>> THEN Brk(m)
  ELSE [m EXCEPT !.loc.spc = Head(m.r.ret_stack),
                 !.r.ret_stack = Tail(m.r.ret_stack)]

ExecRet(m) ==
  IF m.r.ret_stack = <<>> THEN Brk(m)
  ELSE [m EXCEPT !.loc.spc = Last(m.r.ret_stack),
                 !.r.ret_stack = Front(m.r.ret_stack)]

\* The target of a taken Jnz as the arm leaves it in spc (spc += 1 follows).
JnzTarget(addr) == addr

\* A Jnz that polls the flag before it pops.
ExecJnzPollsFirst(m, i) ==
  IF m.stopped THEN Brk([m EXCEPT !.stopped = FALSE])
  ELSE LET a == AccuPop(m) IN
       IF ~a.ok THEN Brk(m)
       ELSE IF a.val # Double(0) THEN [a.m EXCEPT !.loc.spc = JnzTarget(i.addr)]
       ELSE a.m

ExecJnz(m, i) ==
  LET a == AccuPop(m) IN
  IF ~a.ok THEN Brk(m)
  ELSE IF a.m.stopped THEN Brk([a.m EXCEPT !.stopped = FALSE])
  ELSE IF a.val # Double(0) THEN [a.m EXCEPT !.loc.spc = JnzTarget(i.addr)]
  ELSE a.m

ExecDup(m) ==
  LET a == AccuLast(m) IN
  IF ~a.ok THEN Brk(m)
  ELSE LET s == Append(m.r.stack, a.val)
           n == [m EXCEPT !.r.stack = s]
       IN IF Len(s) >= MAX_STACK THEN Brk(n) ELSE n

ExecDrop(m) ==
  LET a == AccuPop(m) IN IF ~a.ok THEN Brk(m) ELSE a.m

\* An Over that copies the top value.
ExecOverCopiesTop(m) ==
  IF m.r.stack = <<>> THEN Brk(m) ELSE AccuPush(m, m.loc.accu)

ExecOver(m) ==
  IF m.r.stack = <<>> THEN Brk(m) ELSE AccuPush(m, Last(m.r.stack))

\* A Rot that puts the two values it popped back in the opposite order.
ExecRotExchanging(m) ==
  LET a == AccuPop(m) IN
  IF ~a.ok THEN Brk(m)
  ELSE LET b == AccuPop(a.m) IN
       IF ~b.ok THEN Brk(a.m)
       ELSE [b.m EXCEPT !.r.stack = Append(Append(b.m.r.stack, a.val), b.val)]

ExecRot(m) ==
  LET a == AccuPop(m) IN
  IF ~a.ok THEN Brk(m)
  ELSE LET b == AccuPop(a.m) IN
       IF ~b.ok THEN Brk(a.m)
       ELSE [b.m EXCEPT !.r.stack = Append(Append(b.m.r.stack, b.val), a.val)]

ExecSwap(m) ==
  LET a == AccuPop(m) IN
  IF ~a.ok THEN Brk(m)
  ELSE [a.m EXCEPT !.r.stack = Append(a.m.r.stack, a.val)]

ExecClear(m) == [m EXCEPT !.r.stack = <<>>]

\* b (+|-|*) a on Doubles, and on Complex pairs
\* The model's numbers are integers. A quotient that is not one (and x / 0,
\* which f64 gives as inf or NaN) lies outside them: it is given a magnitude
\* past MaxVal, and InBounds ends the behaviour there.
Quot(x, y) ==
  IF y # 0 /\ x % y = 0 THEN x \div y ELSE MaxVal + 1

Arith(op, b, a) ==
  IF a.t = "Double"
  THEN Double(CASE op = "Add" -> b.re + a.re
                [] op = "Sub" -> b.re - a.re
                [] op = "Div" -> Quot(b.re, a.re)
                [] OTHER -> b.re * a.re)
  ELSE CASE op = "Add" -> Complex(b.re + a.re, b.im + a.im)
         [] op = "Sub" -> Complex(b.re - a.re, b.im - a.im)
         [] op = "Div" ->
              LET n == a.re * a.re + a.im * a.im IN
              Complex(Quot(b.re * a.re + b.im * a.im, n),
                      Quot(b.im * a.re - b.re * a.im, n))
         [] OTHER -> Complex(b.re * a.re - b.im * a.im, b.re * a.im + b.im * a.re)

\* Arithmetic with its operands exchanged.
ExecArithSwapped(m, op) ==
  LET g == GetSamenum(m) IN
  IF ~g.ok THEN Brk(g.m)
  ELSE [g.m EXCEPT !.loc.accu = Arith(op, g.a, g.b)]

ExecArith(m, op) ==
  LET g == GetSamenum(m) IN
  IF ~g.ok THEN Brk(g.m)
  ELSE [g.m EXCEPT !.loc.accu = Arith(op, g.b, g.a)]

Cmp(op, b, a) ==
  CASE op = "Gt" -> b > a
    [] op = "Lt" -> b < a
    [] op = "Ge" -> b >= a
    [] op = "Le" -> b <= a
    [] OTHER -> b = a

\* A comparison with its operands exchanged.
ExecCmpSwapped(m, op) ==
  LET a == DoublePop(m) IN
  IF ~a.ok THEN Brk(a.m)
  ELSE LET b == DoubleLast(a.m) IN
       IF ~b.ok THEN Brk(a.m)
       ELSE [a.m EXCEPT !.loc.accu = Double(IF Cmp(op, a.val, b.val) THEN 1 ELSE 0)]

\* Gt, Lt, Ge, Le, Eq: double_pop, double_last, then 1.0 or 0.0
ExecCmp(m, op) ==
  LET a == DoublePop(m) IN
  IF ~a.ok THEN Brk(a.m)
  ELSE LET b == DoubleLast(a.m) IN
       IF ~b.ok THEN Brk(a.m)
       ELSE [a.m EXCEPT !.loc.accu = Double(IF Cmp(op, b.val, a.val) THEN 1 ELSE 0)]

AbsInt(x) == IF x < 0 THEN -x ELSE x
\* Complex::norm on integral parts: the integer square root (exact for the
\* values the model's literals give).
Norm(re, im) ==
  LET n == re * re + im * im IN CHOOSE k \in 0..n : k * k <= n /\ n < (k + 1) * (k + 1)

ExecAbs(m) ==
  LET a == AccuLast(m) IN
  IF ~a.ok THEN Brk(m)
  ELSE IF a.val.t = "Double" THEN [m EXCEPT !.loc.accu = Double(AbsInt(a.val.re))]
  ELSE IF a.val.t = "Complex" THEN [m EXCEPT !.loc.accu = Double(Norm(a.val.re, a.val.im))]
  ELSE m

\* floor (ceil and round have the same shape); an integral value is its own floor
ExecFloor(m) ==
  LET a == DoubleLast(m) IN
  IF ~a.ok THEN Brk(m) ELSE [m EXCEPT !.loc.accu = Double(a.val)]

\* f64::ln and f64::exp where the result is integral: ln 1 = 0 and exp 0 = 1.
\* Every other result lies outside the model's numbers (see Quot).
Ln(x) == IF x = 1 THEN 0 ELSE MaxVal + 1
Exp(x) == IF x = 0 THEN 1 ELSE MaxVal + 1
\* Complex::ln and Complex::exp likewise: ln(1+0j) = 0+0j, exp(0+0j) = 1+0j.
CLn(v) == IF v.re = 1 /\ v.im = 0 THEN Complex(0, 0) ELSE Complex(MaxVal + 1, 0)
CExp(v) == IF v.re = 0 /\ v.im = 0 THEN Complex(1, 0) ELSE Complex(MaxVal + 1, 0)

\* Loge: a Double's logarithm goes through accu_push, a Complex's replaces accu.
ExecLoge(m) ==
  LET a == AccuLast(m) IN
  IF ~a.ok THEN Brk(m)
  ELSE IF a.val.t = "Double" THEN AccuPush(m, Double(Ln(a.val.re)))
  ELSE IF a.val.t = "Complex" THEN [m EXCEPT !.loc.accu = CLn(a.val)]
  ELSE m

ExecExpe(m) ==
  LET a == AccuLast(m) IN
  IF ~a.ok THEN Brk(m)
  ELSE IF a.val.t = "Double" THEN [m EXCEPT !.loc.accu = Double(Exp(a.val.re))]
  ELSE IF a.val.t = "Complex" THEN [m EXCEPT !.loc.accu = CExp(a.val)]
  ELSE m

\* Real and Imag: the part of a Complex; anything else is an error.
ExecReal(m) ==
  LET a == AccuLast(m) IN
  IF ~a.ok THEN Brk(m)
  ELSE IF a.val.t # "Complex" THEN Brk(m)
  ELSE [m EXCEPT !.loc.accu = Double(a.val.re)]

ExecImag(m) ==
  LET a == AccuLast(m) IN
  IF ~a.ok THEN Brk(m)
  ELSE IF a.val.t # "Complex" THEN Brk(m)
  ELSE [m EXCEPT !.loc.accu = Double(a.val.im)]

ExecSave(m, i) ==
  LET x == AccuPop(m) IN
  IF ~x.ok THEN Brk(m)
  ELSE [x.m EXCEPT !.r.registers[i.reg] = x.val]

\* A Load that takes the value out of the register.
ExecLoadMoves(m, i) ==
  [AccuPush(m, m.r.registers[i.reg]) EXCEPT !.r.registers[i.reg] = None]

ExecLoad(m, i) == AccuPush(m, m.r.registers[i.reg])

Zeros(n) == [k \in 1..n |-> 0]

ExecVreal(m, i) ==
  LET a == DoublePop(m) IN
  IF ~a.ok THEN Brk(a.m)
  ELSE [a.m EXCEPT !.r.vectors[i.reg] =
          [data_type |-> "Double", vector |-> Zeros(AsUsize(a.val))]]

ExecVcplx(m, i) ==
  LET a == DoublePop(m) IN
  IF ~a.ok THEN Brk(a.m)
  ELSE [a.m EXCEPT !.r.vectors[i.reg] =
          [data_type |-> "Complex", vector |-> Zeros(2 * AsUsize(a.val))]]

\* A slice index past the end panics: the process dies.
Panic(m) == [m EXCEPT !.mode = "dead"]

\* vector[k] = x with Rust's bounds check (k is a 0-based usize)
VecStore(m, reg, k, x) ==
  IF k >= Len(m.r.vectors[reg].vector) THEN Panic(m)
  ELSE [m EXCEPT !.r.vectors[reg].vector[k + 1] = x]

ExecVsave(m, i) ==
  LET a == DoublePop(m) IN
  IF ~a.ok THEN Brk(a.m)
  ELSE LET b == AccuPop(a.m) IN
       IF ~b.ok THEN Brk(a.m)
       ELSE LET v == b.m.r.vectors[i.reg]
                k == AsUsize(a.val)
            IN CASE b.val.t = "Double" ->
                      IF v.data_type # "Double" THEN Brk(b.m)
                      ELSE VecStore(b.m, i.reg, k, b.val.re)
                 [] b.val.t = "Complex" ->
                      IF v.data_type # "Complex" THEN Brk(b.m)
                      ELSE LET n == VecStore(b.m, i.reg, 2 * k, b.val.re) IN
                           IF n.mode = "dead" THEN n
                           ELSE VecStore(n, i.reg, 2 * k + 1, b.val.im)
                 [] OTHER -> b.m

\* A Vload that reads element 0 whatever the index.
ExecVloadFirstElement(m, i) ==
  LET a == DoubleLast(m) IN
  IF ~a.ok THEN Brk(m)
  ELSE LET v == m.r.vectors[i.reg] IN
       IF v.data_type = "Double"
       THEN IF Len(v.vector) = 0 THEN Panic(m)
            ELSE [m EXCEPT !.loc.accu = Double(v.vector[1])]
       ELSE IF Len(v.vector) < 2 THEN Panic(m)
            ELSE [m EXCEPT !.loc.accu = Complex(v.vector[1], v.vector[2])]

ExecVload(m, i) ==
  LET a == DoubleLast(m) IN
  IF ~a.ok THEN Brk(m)
  ELSE LET v == m.r.vectors[i.reg]
           k == AsUsize(a.val)
       IN IF v.data_type = "Double"
          THEN IF k >= Len(v.vector) THEN Panic(m)
               ELSE [m EXCEPT !.loc.accu = Double(v.vector[k + 1])]
          ELSE IF 2 * k + 1 >= Len(v.vector) THEN Panic(m)
               ELSE [m EXCEPT !.loc.accu = Complex(v.vector[2 * k + 1], v.vector[2 * k + 2])]

ExecFractionalDigit(m) ==
  LET a == AccuPop(m) IN
  IF ~a.ok THEN Brk(m)
  ELSE IF a.val.t # "Double" THEN Brk(a.m)
  ELSE IF a.val.re <= 17 THEN [a.m EXCEPT !.r.fractionaldigit = AsUsize(a.val.re)]
  ELSE a.m

\* A Print that pops what it prints.
ExecPrintPops(m) ==
  LET a == AccuPop(m) IN
  IF ~a.ok THEN Brk(m)
  ELSE IF a.val.t = "None" THEN a.m
  ELSE [a.m EXCEPT !.lastout = a.val]

ExecPrint(m) ==
  LET a == AccuLast(m) IN
  IF ~a.ok THEN Brk(m)
  ELSE IF a.val.t = "None" THEN m
  ELSE [m EXCEPT !.lastout = a.val]

ExecQuit(m) == [m EXCEPT !.mode = "exit"]

CmpOps == {"Gt", "Lt", "Ge", "Le", "Eq"}
ArithOps == {"Add", "Sub", "Mul", "Div"}

Exec(m, i) ==
  CASE i.op = "Literal" -> ExecLiteral(m, i)
    [] i.op = "Ret" -> ExecRet(m)
    [] i.op = "Jnz" -> ExecJnz(m, i)
    [] i.op = "Dup" -> ExecDup(m)
    [] i.op = "Drop" -> ExecDrop(m)
    [] i.op = "Over" -> ExecOver(m)
    [] i.op = "Rot" -> ExecRot(m)
    [] i.op = "Swap" -> ExecSwap(m)
    [] i.op = "Clear" -> ExecClear(m)
    [] i.op \in ArithOps -> ExecArith(m, i.op)
    [] i.op \in CmpOps -> ExecCmp(m, i.op)
    [] i.op = "Abs" -> ExecAbs(m)
    [] i.op \in {"Floor", "Ceil", "Round"} -> ExecFloor(m)
    [] i.op = "Loge" -> ExecLoge(m)
    [] i.op = "Expe" -> ExecExpe(m)
    [] i.op = "Real" -> ExecReal(m)
    [] i.op = "Imag" -> ExecImag(m)
    [] i.op = "Save" -> ExecSave(m, i)
    [] i.op = "Load" -> ExecLoad(m, i)
    [] i.op = "Vreal" -> ExecVreal(m, i)
    [] i.op = "Vcplx" -> ExecVcplx(m, i)
    [] i.op = "Vsave" -> ExecVsave(m, i)
    [] i.op = "Vload" -> ExecVload(m, i)
    [] i.op = "FractionalDigit" -> ExecFractionalDigit(m)
    [] i.op = "Print" -> ExecPrint(m)
    [] OTHER -> ExecQuit(m)

\* The end of the loop body: spc += 1; if err { break }
Advance(m) ==
  IF m.loc.brk \/ m.mode # "run" THEN m
  ELSE [m EXCEPT !.loc.spc = m.loc.spc + 1, !.loc.brk = m.loc.err]

\* One iteration of `while spc < self.prog.len()`
RunStep(m) ==
  LET i == Fetch(m) IN
  IF i.op = "Call" THEN ExecCall(m, i) ELSE Advance(Exec(m, i))

\* How run starts: the instructions are appended, the locals initialised.
RunEnter(m, cont) ==
  [m EXCEPT !.r.prog = m.r.prog \o m.p.instructions,
            !.loc = [spc |-> m.r.pc, accu |-> m.r.accumulator,
                     err |-> FALSE, brk |-> FALSE],
            !.mode = "run", !.cont = cont]

RunLoops(m) == m.mode = "run" /\ ~m.loc.brk /\ m.loc.spc < Len(m.r.prog)

\* A run that, when broken, cuts the unexecuted rest out of the program.
RunLeaveTruncating(m) ==
  [m EXCEPT !.r.accumulator = m.loc.accu,
            !.r.prog = IF m.loc.spc < Len(m.r.prog)
                       THEN SubSeq(m.r.prog, 1, m.loc.spc) ELSE m.r.prog,
            !.r.pc = m.loc.spc]

\* A run that resets the flag when it returns.
RunLeaveClearsFlag(m) ==
  [m EXCEPT !.r.accumulator = m.loc.accu,
            !.r.pc = IF m.loc.spc < Len(m.r.prog) THEN Len(m.r.prog) ELSE m.loc.spc,
            !.stopped = FALSE]

\* A run that writes the counter back where the loop left it.
RunLeaveKeepsCounter(m) ==
  [m EXCEPT !.r.accumulator = m.loc.accu, !.r.pc = m.loc.spc]

\* After the loop: the rest of the program is dropped, the locals written back.
RunLeave(m) ==
  [m EXCEPT !.r.accumulator = m.loc.accu,
            !.r.pc = IF m.loc.spc < Len(m.r.prog) THEN Len(m.r.prog) ELSE m.loc.spc]

\* add_instr
AddInstr(r, ins) ==
  LET prog == r.prog \o ins IN [r EXCEPT !.prog = prog, !.pc = Len(prog)]


\* ------------------------------------------------------------- Parser::parse_line
\* Tokens are strings. The tables give what the code reads off a token's text.
\* saveX / loadX (5 bytes) and vrealX / vcplxX / vsaveX / vloadX (6 bytes)
RegWord ==
  ("savea" :> RegIns("Save", "a")) @@ ("saveb" :> RegIns("Save", "b")) @@
  ("loada" :> RegIns("Load", "a")) @@ ("loadb" :> RegIns("Load", "b")) @@
  ("vreala" :> RegIns("Vreal", "a")) @@ ("vcplxa" :> RegIns("Vcplx", "a")) @@
  ("vsavea" :> RegIns("Vsave", "a")) @@ ("vloada" :> RegIns("Vload", "a")) @@
  ("vrealb" :> RegIns("Vreal", "b")) @@ ("vloadb" :> RegIns("Vload", "b"))

\* A register mnemonic followed by more than one byte: reported, then `continue`.
LongRegWord == {"saveab", "vloadab"}

Mnemonic ==
  ("dup" :> "Dup") @@ ("drop" :> "Drop") @@ ("over" :> "Over") @@ ("rot" :> "Rot") @@
  ("swap" :> "Swap") @@ ("clear" :> "Clear") @@
  ("+" :> "Add") @@ ("add" :> "Add") @@ ("-" :> "Sub") @@ ("sub" :> "Sub") @@
  ("*" :> "Mul") @@ ("mul" :> "Mul") @@ ("/" :> "Div") @@ ("div" :> "Div") @@
  ("abs" :> "Abs") @@ ("floor" :> "Floor") @@ ("ceil" :> "Ceil") @@ ("round" :> "Round") @@
  ("loge" :> "Loge") @@ ("expe" :> "Expe") @@ ("real" :> "Real") @@ ("imag" :> "Imag") @@
  (">" :> "Gt") @@ ("<" :> "Lt") @@ (">=" :> "Ge") @@ ("<=" :> "Le") @@ ("=" :> "Eq") @@
  ("k" :> "FractionalDigit") @@ ("precision" :> "FractionalDigit") @@
  ("p" :> "Print") @@ ("print" :> "Print")

QuitWord == {"quit", "bye", "exit", "q"}

\* Tokens whose first byte is a digit or '-', with what str::parse::<f64> gives.
RealTok ==
  ("0" :> 0) @@ ("1" :> 1) @@ ("2" :> 2) @@ ("3" :> 3) @@ ("4" :> 4) @@
  ("5" :> 5) @@ ("6" :> 6) @@ ("7" :> 7) @@ ("-1" :> -1) @@
  ("10" :> 10) @@ ("20" :> 20)
\* Tokens that end in 'j': the value of the text before the 'j'.
ImagTok == ("0j" :> 0) @@ ("1j" :> 1) @@ ("2j" :> 2) @@ ("4j" :> 4)
\* Number-like tokens that do not parse ("Number error").
BadRealTok == {"1x"}
BadImagTok == {"1xj"}

EndsInJ(tok) == tok \in DOMAIN ImagTok \cup BadImagTok
IsNumberLike(tok) == tok \in DOMAIN RealTok \cup BadRealTok \/ EndsInJ(tok)

\* parser.rs:252-266: a pending real literal goes in front of the last
\* instruction of the buffer, or alone into an empty buffer.
FlushNumber(p) ==
  IF p.last_number.t = "Double"
  THEN [p EXCEPT !.instructions =
                   IF p.instructions # <<>>
                   THEN Append(Append(Front(p.instructions), Literal(p.last_number)),
                               Last(p.instructions))
                   ELSE <<Literal(p.last_number)>>,
                 !.last_number = None]
  ELSE p

Flushed(m) == [m EXCEPT !.p = FlushNumber(m.p)]
Emit(m, ins) == [m EXCEPT !.p.instructions = Append(m.p.instructions, ins)]
\* `break` out of the token loop: the rest of the line is not read.
BreakLine(m) == [m EXCEPT !.line = <<>>]

\* The address "[" records.
LoopOpenAddr(m) == Len(m.r.prog) + Len(m.p.instructions)

ParseLoopOpen(m) ==
  Flushed([m EXCEPT !.p.loop_addr = Append(m.p.loop_addr, LoopOpenAddr(m))])

\* "]": loop_addr.pop().unwrap() panics on an empty stack.
ParseLoopClose(m) ==
  IF m.p.loop_addr = <<>> THEN Panic(m)
  ELSE Flushed([Emit(m, Jnz(Last(m.p.loop_addr)))
                  EXCEPT !.p.loop_addr = Front(m.p.loop_addr)])

\* ";"
ParseSemicolon(m) ==
  Flushed([m EXCEPT !.r = AddInstr(m.r, Append(m.p.instructions, Ins("Ret"))),
                    !.p.instructions = <<>>,
                    !.p.procedure_state = 0])

\* The number branch (parser.rs:218-244); num_parser = true, so no flush.
ParseNumber(m, tok) ==
  IF EndsInJ(tok)
  THEN IF tok \in BadImagTok THEN BreakLine(m)
       ELSE LET re == IF m.p.last_number.t = "Double" THEN m.p.last_number.re ELSE 0 IN
            [Emit(m, Literal(Complex(re, ImagTok[tok]))) EXCEPT !.p.last_number = None]
  ELSE LET m2 == IF m.p.last_number.t = "Double"
                 THEN Emit(m, Literal(m.p.last_number)) ELSE m IN
       IF tok \in BadRealTok THEN BreakLine(m2)
       ELSE [m2 EXCEPT !.p.last_number = Double(RealTok[tok])]

\* The `_` arm (parser.rs:208-248)
ParseWord(m, tok) ==
  IF m.p.procedure_state = 1
  THEN Flushed([m EXCEPT !.p.procedure_lut = (tok :> LoopOpenAddr(m)) @@ m.p.procedure_lut,
                         !.p.procedure_state = 2])
  ELSE IF tok \in DOMAIN m.p.procedure_lut
  THEN Flushed(Emit(m, Call(m.p.procedure_lut[tok])))
  ELSE IF IsNumberLike(tok) THEN ParseNumber(m, tok)
  ELSE Flushed(m)

\* One iteration of the token loop.
ParseToken(m) ==
  LET tok == Head(m.line)
      m1 == [m EXCEPT !.line = Tail(m.line)]
  IN CASE tok \in LongRegWord -> m1
       [] tok \in DOMAIN RegWord -> Flushed(Emit(m1, RegWord[tok]))
       [] tok \in DOMAIN Mnemonic -> Flushed(Emit(m1, Ins(Mnemonic[tok])))
       [] tok = ":" -> RunEnter(m1, "colon")
       [] tok = ";" -> ParseSemicolon(m1)
       [] tok = "[" -> ParseLoopOpen(m1)
       [] tok = "]" -> ParseLoopClose(m1)
       [] tok = "help" -> Flushed(m1)
       [] tok \in QuitWord -> Flushed(Emit(m1, Ins("Quit")))
       [] OTHER -> ParseWord(m1, tok)

\* parser.rs:268-271
EndOfLine(m) ==
  IF m.p.procedure_state = 0 /\ m.p.instructions # <<>>
  THEN RunEnter(m, "eol")
  ELSE [m EXCEPT !.mode = "idle"]

\* run returns to its caller: the rest of the ":" arm and of that loop
\* iteration (parser.rs:185-186, 253-266), or the end of parse_line (270).
RunReturn(m) ==
  LET n == RunLeave(m) IN
  IF m.cont = "colon"
  THEN Flushed([n EXCEPT !.p.instructions = <<>>, !.p.procedure_state = 1,
                         !.mode = "parse"])
  ELSE [n EXCEPT !.p.instructions = <<>>, !.mode = "idle"]

\* ------------------------------------------------------------- the machine, step by step
StepM(m) ==
  CASE m.mode = "parse" /\ m.line # <<>> -> ParseToken(m)
    [] m.mode = "parse" /\ m.line = <<>> -> EndOfLine(m)
    [] RunLoops(m) -> RunStep(m)
    [] m.mode = "run" /\ ~RunLoops(m) -> RunReturn(m)
    [] OTHER -> m

Halted(m) == m.mode \in {"idle", "dead", "exit"}

RECURSIVE Steps(_, _)
Steps(m, fuel) == IF Halted(m) \/ fuel = 0 THEN m ELSE Steps(StepM(m), fuel - 1)

\* parse_line(toks) from the machine state m, run to its return.
RunLine(m, toks) == Steps([m EXCEPT !.mode = "parse", !.line = toks], MaxFuel)


\* ------------------------------------------------------------- what a user can observe
\* The cached top of stack: the local accu inside run, the field otherwise.
Accu(m) == IF m.mode = "run" THEN m.loc.accu ELSE m.r.accumulator
\* The operand stack bottom to top: the vector without its bottom slot (which
\* holds whatever the accumulator held before the first push), then the accumulator.
Depth(m) == Len(m.r.stack)
OperandStack(m) == IF m.r.stack = <<>> THEN <<>> ELSE Append(Tail(m.r.stack), Accu(m))
Data(m) == [stack |-> OperandStack(m), registers |-> m.r.registers,
            vectors |-> m.r.vectors]

\* ------------------------------------------------------------- input lines
Seqs1(T) == {<<a>> : a \in T}
Seqs2(T) == {<<a, b>> : a \in T, b \in T}

\* Largest loop count of the counting loops.
MaxN == 3
NumTok(n) == CHOOSE t \in DOMAIN RealTok : RealTok[t] = n
\* n [ 1 - dup ]
LoopLine(n) == <<NumTok(n), "[", "1", "-", "dup", "]">>
\* n dup [ 1 - dup ]
DupLoopLine(n) == <<NumTok(n), "dup", "[", "1", "-", "dup", "]">>
LoopLines ==
  {LoopLine(n) : n \in 1..MaxN} \cup {DupLoopLine(n) : n \in 1..MaxN} \cup
  { <<"1", "1", "[", "]">>, <<"1", "[", "1", "]">>, <<"[", "]">>, <<"]">>,
    <<"1", "]", "2", "p">>, <<"2", "[", "1", "-", "dup", "p", "]", "p">> }

OpTok == {"dup", "drop", "over", "rot", "swap", "clear", "+", "-", "*", ">", "=",
          "abs", "floor", "savea", "loada", "p", "k"}
OpLines == Seqs1(OpTok) \cup {<<"1", t>> : t \in OpTok}

SubNames == {"f", "sq"}
BodyTok == {"dup", "*", "5", "1", "-"}
Bodies == Seqs1(BodyTok) \cup Seqs2(BodyTok) \cup
          { <<"[", "1", "-", "dup", "]">>, <<"2", "[", "1", "-", "dup", "]">>, <<"f">> }
DefLine(name, body) == <<":", name>> \o body \o <<";">>
DefLines == {DefLine("f", b) : b \in Bodies} \cup
            { DefLine("sq", <<"dup", "*">>),
              DefLine("f", <<"dup">>) \o DefLine("sq", <<"f", "*">>),
              <<"5", ":", "f", "dup", ";">>,
              <<"1", "2", "+", ":", "f", "dup", ";">>,
              <<":", "f", "dup">>,
              <<":", "f", "1x", "dup", ";">> }
CallLines == Seqs1(SubNames) \cup {<<a, n>> : a \in {"2", "5"}, n \in SubNames} \cup
             { <<"5", "sq", "p">>, <<"3", "f", "p">> }

VecLines ==
  {<<"7", k, "vsavea">> : k \in {"0", "1", "2", "3"}} \cup
  {<<"1", "2j", k, "vsavea">> : k \in {"0", "1", "2", "3"}} \cup
  {<<k, "vloada">> : k \in {"0", "1", "2", "-1"}} \cup
  { <<"2", "vreala">>, <<"2", "vcplxa">>, <<"0", "vreala">>,
    <<"2", "vreala", "7", "1", "vsavea", "1", "vloada">>,
    <<"2", "vcplxa", "3", "4j", "1", "vsavea", "1", "vloada", "abs">> }

StackLines ==
  { <<>>, <<"5">>, <<"1", "2">>, <<"0", "p">>, <<"2", "3", "dup">>,
    <<"3", "dup", "dup", "dup">>, <<"3", "dup", "dup", "dup", "dup">>,
    <<"1", "2j", "p">>, <<"2j", "savea">>, <<"+", "5", "p">> }

MiscLines ==
  { <<"foo", "1", "p">>, <<"1x", "1", "p">>, <<"1", "1xj", "p">>, <<"help">>,
    <<"1", "help", "dup">>, <<"q">>, <<"1", "saveab", "p">>, <<"1", "p">>,
    <<"1", "[">>, <<";">>, <<"1", "6", "*", "6", "*">> }

RegLines ==
  { <<"7", "savea", "loada">>, <<"1", "2j", "saveb", "loadb">>, <<"3", "saveb">>,
    <<"savea", "loada">>, <<"loadb", "p">> }

PrintLines == {<<t, "p">> : t \in {"0", "1", "7", "-1"}}

PrecisionLines ==
  { <<"5", "k">>, <<"20", "k">>, <<"-1", "k">>, <<"5", "k", "20", "k">>,
    <<"1", "2j", "k">>, <<"3", "k", "7", "p">> }

CmpTok == {">", "<", ">=", "<=", "="}
ArithLines ==
  {<<x, y, o>> : x \in {"4", "5"}, y \in {"4", "5"}, o \in CmpTok} \cup
  { <<"10", "6", "4", "-", "/">>, <<"6", "4", "-">>, <<"6", "2", "/">>,
    <<"4", "6", "-">>, <<"7", "2", "/">>, <<"6", "0", "/">>, <<"1j", "2", ">">>,
    <<"1", "[", "0j", "]">>, <<"1", "[", "0", "]", "p">>, <<"1", "1", "[">> }

RetLines ==
  { <<":", "f", "dup", ";", "]">>, <<";">>, <<":", "f", "dup", ";", "f">> }

\* Tokens that emit no instruction between a literal and the next instruction.
OrderLines ==
  { <<"1", "dup", "2", "help", "+">>, <<"1", "dup", "2", "foo", "+">>,
    <<"1", "2", "help", "+">> }

RotLines ==
  { <<"1", "2", "3", "rot">>, <<"4", "1", "2", "3", "rot">>, <<"1", "2j", "2", "3", "rot">>,
    <<"2", "3", "rot">> }

\* Arithmetic on Complex pairs and on pairs of a Real and a Complex.
PromotionLines ==
  {<<"1", "2j", "3", o>> : o \in {"+", "-", "*"}} \cup
  {<<"3", "1", "2j", o>> : o \in {"+", "-", "*"}} \cup
  {<<"1", "2j", "3", "4j", o>> : o \in {"+", "-", "*"}} \cup
  { <<"4", "2j", "2", "/">>, <<"4", "2", "0j", "/">>, <<"4", "2j", "1", "1j", "/">> }

\* Imaginary literals after a real literal, an operator, an imaginary literal,
\* a word that emits nothing, and at the start of a line.
ImagLines ==
  { <<"2j", "p">>, <<"1", "p", "2j">>, <<"1j", "2j", "+">>, <<"1", "help", "2j">>,
    <<"1", "saveab", "2j", "p">>, <<"3", "4j", "p">> }

\* A round trip through a vector, with another vector beside it.
RoundTripLines ==
  { <<"2", "vrealb", "2", "vcplxa", "3", "4j", "1", "vsavea", "1", "vloada">>,
    <<"2", "vreala", "7", "1", "vsavea", "5", "0", "vsavea", "1", "vloada">> }

\* Sequences of literals and stack-shape operations.
ShapeLines ==
  { <<"1", "2", "3", "rot", "swap", "over">>, <<"1", "2", "swap", "drop", "dup">>,
    <<"1", "2", "clear", "3", "dup">>, <<"1", "2j", "2", "swap", "over", "rot">>,
    <<"1", "drop", "2", "3", "over", "swap", "drop">>, <<"1", "2", "over", "over", "clear">>,
    <<"1", "swap">>, <<"1", "2", "rot">>, <<"1", "clear", "2", "over">> }

UnaryLines ==
  { <<"1", "loge">>, <<"1", "0j", "loge">>, <<"0", "expe">>, <<"0", "0j", "expe">>,
    <<"3", "4j", "real">>, <<"3", "4j", "imag">>, <<"2", "real">>, <<"3", "4j", "floor">>,
    <<"-1", "abs">>, <<"3", "4j", "abs">>, <<"2", "ceil">>, <<"2", "round">>,
    <<"2", "floor">>, <<"loge">>, <<"2", "loge">> }

\* The lines the read loop may deliver as its first, second and third line.
FirstLines ==
  StackLines \cup DefLines \cup VecLines \cup MiscLines \cup LoopLines \cup
  { <<"7", "savea", "loada">>, <<"5", "k">>, <<"1", "1", "[">> }
SecondLines ==
  FirstLines \cup OpLines \cup CallLines \cup RetLines \cup
  RegLines \cup PrintLines \cup PrecisionLines \cup ArithLines \cup OrderLines \cup
  UnaryLines \cup RotLines \cup PromotionLines \cup ImagLines \cup RoundTripLines \cup
  ShapeLines
ThirdLines == { <<"1", "p">> }
Phases == <<FirstLines, SecondLines, ThirdLines>>


\* ------------------------------------------------------------- state
VARIABLES
  p,        \* Parser: instructions, last_number, procedure_lut, procedure_state, loop_addr
  r,        \* Runner: fractionaldigit, prog, pc, stack, ret_stack, registers, vectors, accumulator
  stopped,  \* Runner.stopped, the AtomicBool the Ctrl-C handler sets
  mode,     \* "idle" | "parse" | "run" | "dead" | "exit"
  line,     \* the tokens of the current line still to be processed
  cont,     \* the caller of the run in progress: "colon" | "eol"
  loc,      \* the locals of Runner::run: spc, accu, err, brk
  lastout,  \* what Print wrote last
  nread,    \* lines read so far
  presses,  \* Ctrl-C signals delivered so far
  ev,       \* history: the step just taken
  hist      \* history: the current line and the definitions seen

vars == <<p, r, stopped, mode, line, cont, loc, lastout, nread, presses, ev, hist>>

M == [p |-> p, r |-> r, stopped |-> stopped, mode |-> mode, line |-> line,
      cont |-> cont, loc |-> loc, lastout |-> lastout]

Set(m) ==
  /\ p' = m.p /\ r' = m.r /\ stopped' = m.stopped /\ mode' = m.mode
  /\ line' = m.line /\ cont' = m.cont /\ loc' = m.loc /\ lastout' = m.lastout

\* Parser::new and Runner::new
InitParser ==
  [instructions |-> <<>>, last_number |-> None, procedure_lut |-> [x \in {} |-> 0],
   procedure_state |-> 0, loop_addr |-> <<>>]
InitRunner ==
  [fractionaldigit |-> 0, prog |-> <<>>, pc |-> 0, stack |-> <<>>, ret_stack |-> <<>>,
   registers |-> [x \in RegIds |-> None],
   vectors |-> [x \in RegIds |-> [data_type |-> "Double", vector |-> <<>>]],
   accumulator |-> None]
NoLoc == [spc |-> 0, accu |-> None, err |-> FALSE, brk |-> FALSE]

\* ------------------------------------------------------------- history
NoIns == Ins("")
Event(kind, tok, ins, m) ==
  [kind |-> kind, tok |-> tok, ins |-> ins, depth |-> Depth(m), accu |-> Accu(m),
   flag |-> m.stopped, loops |-> Len(m.p.loop_addr), spc |-> m.loc.spc]

NoData == [stack |-> <<>>, registers |-> [x \in RegIds |-> None],
           vectors |-> [x \in RegIds |-> [data_type |-> "Double", vector |-> <<>>]]]
InitHist ==
  [line |-> <<>>, top |-> FALSE, depth0 |-> 0, pending0 |-> FALSE, clean |-> FALSE,
   jnzs |-> 0, looped |-> FALSE,
   open |-> FALSE, name |-> "", body |-> <<>>, snap |-> NoData, base |-> 0,
   done |-> FALSE,
   stack0 |-> <<>>, prev |-> NoIns, retfault |-> FALSE, afterret |-> FALSE,
   defs |-> [x \in {} |-> <<>>], bodyat |-> [x \in {} |-> 0], calls |-> <<>>,
   hasexp |-> FALSE, expect |-> NoData]

\* Jnz executions are counted up to this cap.
JnzCap == MaxN + 2
Min(a, b) == IF a < b THEN a ELSE b

\* The line delivered now ends in the name of a subroutine whose one-line
\* definition is complete: what the same line with the body's tokens in place
\* of the name leaves behind.
Inlined(l, defs) == Front(l) \o defs[Last(l)]
HistRead(h, m, l) ==
  LET calls == l # <<>> /\ Last(l) \in DOMAIN h.defs /\ m.p.procedure_state = 0
      inl == IF calls THEN RunLine(m, Inlined(l, h.defs)) ELSE m
  IN [h EXCEPT !.line = l, !.top = (m.p.procedure_state = 0), !.depth0 = Depth(m),
               !.pending0 = (m.p.last_number.t = "Double"),
               !.clean = ~m.stopped, !.jnzs = 0, !.looped = FALSE, !.done = FALSE,
               !.stack0 = OperandStack(m),
               !.retfault = FALSE, !.afterret = h.retfault,
               !.hasexp = calls /\ inl.mode = "idle",
               !.expect = IF calls /\ inl.mode = "idle" THEN Data(inl) ELSE NoData]

\* The length of the Program with the buffer behind it: the index at which the
\* instruction appended next is stored.
StoreAt(m) == Len(m.r.prog) + Len(m.p.instructions)

\* A token was processed in state m, giving n. bodyat maps the address a "["
\* recorded to the index at which the instruction compiled next is stored (the
\* literal pending at the "[" is in the buffer by then).
HistToken(h, m, tok, n) ==
  LET g == IF h.open /\ m.p.procedure_state = 1 THEN [h EXCEPT !.name = tok]
           ELSE IF h.open /\ m.p.procedure_state = 2 /\ tok = ";"
           THEN [h EXCEPT !.open = FALSE, !.done = (m.line = <<tok>>),
                          !.defs = IF m.line = <<tok>> /\ h.body # <<>> /\ n.mode = "parse"
                                   THEN (h.name :> h.body) @@ h.defs ELSE h.defs]
           ELSE IF h.open /\ m.p.procedure_state = 2
           THEN [h EXCEPT !.body = Append(h.body, tok)]
           ELSE [h EXCEPT !.done = FALSE]
  IN IF tok = "["
     THEN [g EXCEPT !.bodyat = (LoopOpenAddr(m) :> StoreAt(n)) @@ h.bodyat]
     ELSE g

\* The run that ":" started has returned: the definition begins in state n.
HistColon(h, n) ==
  [h EXCEPT !.open = TRUE, !.name = "", !.body = <<>>, !.snap = Data(n),
            !.base = Len(n.r.prog), !.done = FALSE]

\* prev is the instruction executed before this one when no other step came
\* between; retfault, that a Ret found the return stack empty in this line;
\* calls, the Calls of this run that no Ret has answered yet (where each
\* stood and how deep the return stack was), oldest first.
HistExec(h, m, n) ==
  LET i == Fetch(m)
      g == [h EXCEPT !.prev = IF ev.kind = "exec" THEN ev.ins ELSE NoIns,
                     !.retfault = h.retfault \/ (i.op = "Ret" /\ m.r.ret_stack = <<>>),
                     !.calls = IF i.op = "Call"
                               THEN Append(h.calls, [at |-> m.loc.spc,
                                                     depth |-> Len(m.r.ret_stack)])
                               ELSE IF i.op = "Ret" /\ h.calls # <<>> THEN Front(h.calls)
                               ELSE h.calls]
  IN
  IF i.op = "Jnz"
  THEN [g EXCEPT !.jnzs = Min(h.jnzs + 1, JnzCap),
                 !.looped = h.looped \/ (~n.loc.brk /\ n.loc.spc # m.loc.spc + 1)]
  ELSE g


\* ------------------------------------------------------------- actions
Init ==
  /\ p = InitParser /\ r = InitRunner /\ stopped = FALSE /\ mode = "idle"
  /\ line = <<>> /\ cont = "eol" /\ loc = NoLoc /\ lastout = None
  /\ nread = 0 /\ presses = 0
  /\ ev = Event("init", "", NoIns, [p |-> InitParser, r |-> InitRunner,
                                   stopped |-> FALSE, mode |-> "idle", loc |-> NoLoc])
  /\ hist = InitHist

\* The model keeps numbers and the return stack within its bounds.
Small(v) == v.re \in -MaxVal..MaxVal /\ v.im \in -MaxVal..MaxVal
InBounds(m) ==
  /\ \A k \in 1..Len(m.r.stack) : Small(m.r.stack[k])
  /\ Small(m.loc.accu)
  /\ Len(m.r.ret_stack) <= MaxRet

\* main.rs:60-61: the next line arrives and parse_line is called.
ReadLine ==
  /\ mode = "idle" /\ nread < Len(Phases)
  /\ \E l \in Phases[nread + 1] :
       /\ Set([M EXCEPT !.mode = "parse", !.line = l])
       /\ hist' = HistRead(hist, M, l)
       /\ ev' = Event("read", "", NoIns, M)
  /\ nread' = nread + 1
  /\ UNCHANGED presses

\* One token of the line (parser.rs:31-267). The ":" token calls run, whose
\* loop the Run* actions step through; RunReturns finishes that iteration.
ParseLineToken ==
  /\ mode = "parse" /\ line # <<>>
  /\ Set(ParseToken(M))
  /\ hist' = HistToken(hist, M, Head(line), ParseToken(M))
  /\ ev' = Event("token", Head(line), NoIns, M)
  /\ UNCHANGED <<nread, presses>>

\* The end of the line (parser.rs:268-271): run is called, or nothing is.
ParseLineEnd ==
  /\ mode = "parse" /\ line = <<>>
  /\ Set(EndOfLine(M))
  /\ ev' = Event("eol", "", NoIns, M)
  /\ UNCHANGED <<nread, presses, hist>>

RunInstr ==
  /\ RunLoops(M)
  /\ InBounds(RunStep(M))
  /\ Set(RunStep(M))
  /\ hist' = HistExec(hist, M, RunStep(M))
  /\ ev' = Event("exec", "", Fetch(M), M)
  /\ UNCHANGED <<nread, presses>>

RunCall == RunLoops(M) /\ Fetch(M).op = "Call" /\ RunInstr
RunRet == RunLoops(M) /\ Fetch(M).op = "Ret" /\ RunInstr
RunJnz == RunLoops(M) /\ Fetch(M).op = "Jnz" /\ RunInstr
RunOther == RunLoops(M) /\ Fetch(M).op \notin {"Call", "Ret", "Jnz"} /\ RunInstr

\* The loop of run is over (runner.rs:775-780) and run returns to the parser.
RunReturns ==
  /\ mode = "run" /\ ~RunLoops(M)
  /\ Set(RunReturn(M))
  /\ hist' = [(IF cont = "colon" THEN HistColon(hist, RunReturn(M)) ELSE hist)
                 EXCEPT !.calls = <<>>]
  /\ ev' = Event("return", "", NoIns, M)
  /\ UNCHANGED <<nread, presses>>

\* The handler installed by ctrlc::set_handler (runner.rs:39-41) runs on its
\* own thread, at any moment of the process's life.
CtrlC ==
  /\ mode \notin {"dead", "exit"} /\ presses < MaxCtrlC
  /\ stopped' = TRUE
  /\ presses' = presses + 1
  /\ hist' = [hist EXCEPT !.clean = FALSE]
  /\ ev' = Event("ctrlc", "", NoIns, M)
  /\ UNCHANGED <<p, r, mode, line, cont, loc, lastout, nread>>

Next ==
  \/ ReadLine
  \/ ParseLineToken
  \/ ParseLineEnd
  \/ RunCall
  \/ RunRet
  \/ RunJnz
  \/ RunOther
  \/ RunReturns
  \/ CtrlC

Spec == Init /\ [][Next]_vars

\* ------------------------------------------------------------- runs that do not end
\* Sessions whose runs need not end by themselves: loops that go on until the
\* flag is seen, subroutines that return, and a subroutine that calls itself.
\* No value grows in them, and no subroutine that returns nests.
LiveFirstLines ==
  { DefLine("f", <<"1", "drop", "f">>), DefLine("f", <<"1">>), DefLine("f", <<"dup">>),
    <<"1", "[", "1", "]">>, LoopLine(2), <<"5">> }
LiveSecondLines ==
  { <<"f">>, <<"1", "f">>, <<"1", "[", "f", "]">>, <<"1", "[", "1", "]">>,
    LoopLine(2), <<"1", "p">> }
LivePhases == <<LiveFirstLines, LiveSecondLines>>
\* main.rs:60-61, as ReadLine, with these sessions' lines.
LiveReadLine ==
  /\ mode = "idle" /\ nread < Len(LivePhases)
  /\ \E l \in LivePhases[nread + 1] :
       /\ Set([M EXCEPT !.mode = "parse", !.line = l])
       /\ hist' = HistRead(hist, M, l)
       /\ ev' = Event("read", "", NoIns, M)
  /\ nread' = nread + 1
  /\ UNCHANGED presses

\* Call (runner.rs:180-184) on a return stack of MaxRet addresses: the Vec
\* takes the new address, and the model keeps the newest MaxRet of them.
RunCallDeep ==
  /\ RunLoops(M) /\ Fetch(M).op = "Call" /\ Len(r.ret_stack) = MaxRet
  /\ LET n == RunStep(M)
     IN Set([n EXCEPT !.r.ret_stack = Tail(n.r.ret_stack)])
  /\ ev' = Event("exec", "", Fetch(M), M)
  /\ UNCHANGED <<nread, presses, hist>>

\* What the interpreter's own thread does: parse_line and the loop of run.
\* Reading a line waits for the user, and the signal may never come.
Interpreter ==
  \/ ParseLineToken
  \/ ParseLineEnd
  \/ RunCall
  \/ RunRet
  \/ RunJnz
  \/ RunOther
  \/ RunReturns
  \/ RunCallDeep

LiveNext ==
  \/ LiveReadLine
  \/ ParseLineToken
  \/ ParseLineEnd
  \/ RunCall
  \/ RunRet
  \/ RunJnz
  \/ RunOther
  \/ RunReturns
  \/ RunCallDeep
  \/ CtrlC

\* The interpreter's thread is the only one that runs the program, and it
\* takes its next step whenever it has one.
LiveSpec == Init /\ [][LiveNext]_vars /\ WF_vars(Interpreter)


\* ============================================================= claims
Idle == mode = "idle"
Top(m) == Last(OperandStack(m))
Executed(op) == ev.kind = "exec" /\ ev.ins.op = op
IsPrefix(s, t) == Len(s) <= Len(t) /\ SubSeq(t, 1, Len(s)) = s

\* ------------------------------------------------------------- C1
\* C1: after the top-level line `n [ 1 - dup ]` (no cancellation pending or
\* raised, two free stack slots) the loop body has run exactly n times (one Jnz
\* per iteration), Real 0 is on top and the stack is one deeper than before.
C1_LoopRunsNTimes ==
  \A n \in 1..MaxN :
    (Idle /\ hist.line = LoopLine(n) /\ hist.top /\ hist.clean
       /\ hist.depth0 + 2 < MAX_STACK)
    => (hist.jnzs = n /\ Depth(M) = hist.depth0 + 1 /\ Top(M) = Double(0))

\* The same line read when no real literal is left pending by the line before.
C1_FromFlushedParser ==
  \A n \in 1..MaxN :
    (Idle /\ hist.line = LoopLine(n) /\ hist.top /\ hist.clean /\ ~hist.pending0
       /\ hist.depth0 + 2 < MAX_STACK)
    => (hist.jnzs = n /\ Depth(M) = hist.depth0 + 1 /\ Top(M) = Double(0))

\* ------------------------------------------------------------- C2
\* C2: a top-level line that ends in the name of a defined subroutine leaves the
\* operand stack, registers and vectors as the same line with the body's tokens
\* in place of the name would; `: sq dup * ;` then `5 sq` leaves 25 on top.
C2_CallEqualsInline ==
  /\ (Idle /\ hist.hasexp /\ hist.clean) => Data(M) = hist.expect
  /\ (Idle /\ hist.clean /\ hist.line = <<"5", "sq">> /\ "sq" \in DOMAIN hist.defs
        /\ hist.depth0 + 2 < MAX_STACK)
     => Top(M) = Double(25)

\* ------------------------------------------------------------- C3
\* Every variable but the flag is as in machine n.
SameButFlag(n) ==
  /\ p' = n.p /\ r' = n.r /\ mode' = n.mode /\ line' = n.line
  /\ cont' = n.cont /\ loc' = n.loc /\ lastout' = n.lastout

\* C3 (amended): with the flag raised, every instruction other than Jnz executes
\* as with the flag clear and leaves it raised; a Jnz that pops a value aborts
\* the run, clears the flag and leaves stack and registers as after the pop; a
\* Jnz on an empty stack aborts the run and leaves the flag raised; once the
\* loop is broken no instruction of that run executes.
C3_CancelAtJnz ==
  /\ [][ (ev'.kind = "exec" /\ stopped) =>
           IF Fetch(M).op # "Jnz"
           THEN stopped' /\ SameButFlag(RunStep([M EXCEPT !.stopped = FALSE]))
           ELSE IF r.stack # <<>>
           THEN /\ ~stopped' /\ mode' = "run" /\ loc'.brk
                /\ r'.stack = Front(r.stack) /\ loc'.accu = Last(r.stack)
                /\ r'.registers = r.registers /\ r'.vectors = r.vectors
           ELSE stopped' /\ mode' = "run" /\ loc'.brk /\ r' = r ]_vars
  /\ [][ ev'.kind = "exec" => (mode = "run" /\ ~loc.brk) ]_vars

\* The flag was raised in a loop (a back-edge had been taken) and the next Jnz
\* popped a value, cleared the flag and broke the loop.
C3_Witness ==
  /\ Executed("Jnz") /\ ev.flag /\ ev.depth > 0 /\ hist.looped
  /\ ~stopped /\ mode = "run" /\ loc.brk

\* C3 as claimed: the Jnz executed next in a loop with the flag raised clears it
\* (also on lines read with no literal pending from the line before).
C3_FlagClearedAtJnz ==
  (Executed("Jnz") /\ ev.flag /\ hist.looped /\ ~hist.pending0) => ~stopped

\* ------------------------------------------------------------- C4
VecLen(v) == IF v.data_type = "Complex" THEN Len(v.vector) \div 2 ELSE Len(v.vector)

\* C4: Vsave or Vload with an element index >= N on a vector created with
\* length N >= 1 aborts the run only: the process lives and the run is broken.
C4_IndexErrorAbortsRunOnly ==
  (/\ ev.kind = "exec" /\ ev.ins.op \in {"Vsave", "Vload"}
   /\ ev.accu.t = "Double"
   /\ VecLen(r.vectors[ev.ins.reg]) >= 1
   /\ AsUsize(ev.accu.re) >= VecLen(r.vectors[ev.ins.reg]))
  => (mode = "run" /\ loc.brk)

\* ------------------------------------------------------------- C5
\* The operands each instruction requires.
Need ==
  [op \in {"Over", "Swap", "Add", "Sub", "Mul", "Gt", "Lt", "Ge", "Le", "Eq"} |-> 2] @@
  [op \in {"Rot"} |-> 3] @@
  [op \in {"Dup", "Drop", "Save", "Print", "Jnz", "Abs", "Floor"} |-> 1]

\* C5: an instruction executed on fewer operands than it requires breaks the
\* run and leaves the stack no deeper than it found it.
C5_UnderflowAborts ==
  (ev.kind = "exec" /\ ev.ins.op \in DOMAIN Need /\ ev.depth < Need[ev.ins.op])
  => (mode = "run" /\ loc.brk /\ Depth(M) <= ev.depth)

\* ------------------------------------------------------------- C6
\* C6: every step leaves the Program a prefix of what it becomes: entries keep
\* their index and content, the length never decreases.
C6_ProgramAppendOnly == [][IsPrefix(r.prog, r'.prog)]_vars

\* A definition was committed by add_instr, a later run faulted, and the
\* Program holds the instructions of both lines.
C6_Witness ==
  /\ Idle /\ nread = 2 /\ DOMAIN hist.defs # {} /\ loc.brk
  /\ Len(r.prog) > hist.base + Len(hist.body) + 1

\* ------------------------------------------------------------- C7
\* C7: after a Jnz(addr) that popped a nonzero value with the flag clear, the
\* instruction to execute next is the one at index addr.
C7_JnzJumpsToAddr ==
  (Executed("Jnz") /\ ev.depth > 0 /\ ~ev.flag /\ ev.accu # Double(0))
  => (mode = "run" /\ loc.spc = ev.ins.addr)

\* ------------------------------------------------------------- C8
\* The instruction a body token stands for (tokens without an address).
CompileTok(tok) ==
  IF tok \in DOMAIN RealTok THEN Literal(Double(RealTok[tok])) ELSE Ins(Mnemonic[tok])
PlainBody(b) == \A k \in 1..Len(b) : b[k] \in DOMAIN RealTok \cup DOMAIN Mnemonic
Compiled(b) == [k \in 1..Len(b) |-> CompileTok(b[k])]

\* C8: when the line of a definition `: name t1 ... tn ;` has been processed,
\* stack, registers and vectors are as when the definition began, and the
\* Program holds the instructions of t1..tn and Ret from name's address on.
C8_DefinitionExecutesNothing ==
  (Idle /\ hist.done) =>
    /\ Data(M) = hist.snap
    /\ (PlainBody(hist.body) /\ hist.name \in DOMAIN p.procedure_lut) =>
         LET a == p.procedure_lut[hist.name] IN
         SubSeq(r.prog, a + 1, a + Len(hist.body) + 1)
           = Append(Compiled(hist.body), Ins("Ret"))

\* ------------------------------------------------------------- C9
\* C9: when ":" has been processed nothing compiled from the tokens before it
\* is still pending: the buffer and the pending literal are empty, and the
\* next definition's name gets the Program's length as its address.
C9_ColonFlushesEverything ==
  /\ (mode = "parse" /\ ev.kind = "return" /\ cont = "colon")
       => (p.instructions = <<>> /\ p.last_number = None /\ r.pc = Len(r.prog))
  /\ (ev.kind = "token" /\ hist.open /\ hist.name = ev.tok /\ p.procedure_state = 2)
       => p.procedure_lut[hist.name] = hist.base

\* ------------------------------------------------------------- C10
\* C10: "]" met with an empty loop-address stack ends the line and nothing
\* else: the process lives, the rest of the line is dropped, no Jnz is pending.
C10_UnbalancedCloseEndsLineOnly ==
  (ev.kind = "token" /\ ev.tok = "]" /\ ev.loops = 0)
  => /\ mode = "parse" /\ line = <<>>
     /\ \A k \in 1..Len(p.instructions) : p.instructions[k].op # "Jnz"


\* ------------------------------------------------------------- C11
\* An instruction executes in this step.
Executes(op) == RunLoops(M) /\ Fetch(M).op = op /\ ev'.kind = "exec"
\* The operand stack the step leaves behind.
OperandStackNext ==
  IF r'.stack = <<>> THEN <<>> ELSE Append(Tail(r'.stack), loc'.accu)

\* C11: Load(i) executed right after a Save(i) that popped a Real or Complex v
\* leaves v (variant and payload) on top of the stack the Save left, which is
\* the stack as it was below v; the Save changes no register but i, the Load none.
C11_SaveLoadRoundTrip ==
  /\ [][ (Executes("Load") /\ Executed("Save") /\ ev.depth > 0
            /\ ev.accu.t # "None" /\ Fetch(M).reg = ev.ins.reg)
         => /\ loc'.accu = ev.accu
            /\ OperandStackNext = Append(OperandStack(M), ev.accu)
            /\ r'.registers = r.registers ]_vars
  /\ [][ (Executes("Save") /\ r.stack # <<>>)
         => /\ r'.registers[Fetch(M).reg] = loc.accu
            /\ OperandStackNext = Front(OperandStack(M))
            /\ \A j \in RegIds \ {Fetch(M).reg} : r'.registers[j] = r.registers[j] ]_vars

\* A Complex value was saved to register b and loaded back above a value that
\* was below it, with register a holding something else.
C11_Witness ==
  /\ Executed("Load") /\ ev.ins.reg = "b" /\ hist.prev = RegIns("Save", "b")
  /\ loc.accu = Complex(1, 2) /\ r.registers["b"] = loc.accu
  /\ Depth(M) >= 2 /\ r.registers["a"].t = "Double" /\ mode = "run" /\ ~loc.brk


\* ------------------------------------------------------------- C12
\* C12: after the top-level line `x p`, read with room for one more value, x
\* was printed and the operand stack is what it was with x pushed on top.
C12_PrintLine ==
  \A t \in {"0", "1", "7", "-1"} :
    (Idle /\ hist.line = <<t, "p">> /\ hist.top /\ hist.depth0 + 1 < MAX_STACK)
    => /\ lastout = Double(RealTok[t])
       /\ OperandStack(M) = Append(hist.stack0, Double(RealTok[t]))

\* The same line read when no real literal is left pending by the line before.
C12_FromFlushedParser ==
  \A t \in {"0", "1", "7", "-1"} :
    (Idle /\ hist.line = <<t, "p">> /\ hist.top /\ ~hist.pending0
       /\ hist.depth0 + 1 < MAX_STACK)
    => /\ lastout = Double(RealTok[t])
       /\ OperandStack(M) = Append(hist.stack0, Double(RealTok[t]))

\* ------------------------------------------------------------- C13
\* C13: a step that executes Print leaves the stack vector, the accumulator,
\* the registers, the vectors and the precision setting as they were.
C13_PrintChangesNothing ==
  [][ Executes("Print")
      => /\ r'.stack = r.stack /\ loc'.accu = loc.accu
         /\ r'.registers = r.registers /\ r'.vectors = r.vectors
         /\ r'.fractionaldigit = r.fractionaldigit ]_vars

\* Print wrote the top value 7 with the precision set to 3, and the stack is
\* as deep as before.
C13_Witness ==
  /\ Executed("Print") /\ ev.depth >= 1 /\ Depth(M) = ev.depth /\ ~loc.brk
  /\ lastout = Double(7) /\ loc.accu = Double(7) /\ r.fractionaldigit = 3


\* ------------------------------------------------------------- C14
Clamp17(x) == IF x > 17 THEN 17 ELSE IF x < 0 THEN 0 ELSE x

\* C14: the instruction that sets the precision, having popped a Real v, leaves
\* the setting at v clamped to 0..17; the setting is in 0..17 in every state.
C14_PrecisionClamps ==
  /\ (Executed("FractionalDigit") /\ ev.depth > 0 /\ ev.accu.t = "Double")
       => r.fractionaldigit = Clamp17(ev.accu.re)
  /\ r.fractionaldigit \in 0..17

\* The part of C14 the code keeps: the setting never leaves 0..17.
C14_SettingInRange == r.fractionaldigit \in 0..17


\* ------------------------------------------------------------- C15
\* The words of the input lines that name no instruction and are no number.
BareWords == {"foo"} \cup SubNames

\* C15: a bare word that was processed and is neither a subroutine name just
\* registered nor a defined subroutine ends the line: no token of it is left
\* to be processed.
C15_UnresolvedWordEndsLine ==
  (ev.kind = "token" /\ ev.tok \in BareWords /\ ev.tok \notin DOMAIN p.procedure_lut)
  => (mode = "parse" /\ line = <<>>)


\* ------------------------------------------------------------- C16
\* C16 (amended): the flag changes only when the handler raises it or when a
\* Jnz that found a value to pop clears it; such a Jnz acts on the flag (it
\* leaves it clear, and breaks the loop exactly when it was raised); a Jnz on an
\* empty stack, every other instruction and every parser step leave it as it is.
C16_FlagOnlyAtJnz ==
  /\ [][ stopped' # stopped
         => \/ ev'.kind = "ctrlc" /\ stopped'
            \/ Executes("Jnz") /\ r.stack # <<>> /\ ~stopped' ]_vars
  /\ [][ (Executes("Jnz") /\ r.stack # <<>>)
         => (~stopped' /\ (loc'.brk <=> stopped)) ]_vars
  /\ [][ (Executes("Jnz") /\ r.stack = <<>>)
         => (stopped' = stopped /\ loc'.brk) ]_vars

\* A run that executed `1 p` and no Jnz has returned with the flag, raised
\* before it ended, still raised.
C16_Witness ==
  /\ Idle /\ ev.kind = "return" /\ stopped /\ ~hist.clean /\ hist.jnzs = 0
  /\ hist.line = <<"1", "p">> /\ lastout = Double(1)

\* C16 as claimed: every execution of Jnz reads the flag, so none leaves a
\* raised flag raised.
C16_EveryJnzPolls ==
  (Executed("Jnz") /\ ev.flag) => ~stopped


\* ------------------------------------------------------------- C17
\* Numerically zero: Real 0, or Complex with both parts 0.
IsZero(v) == v.t \in {"Double", "Complex"} /\ v.re = 0 /\ v.im = 0

\* C17: a Jnz that popped a value with the flag clear has removed it, and has
\* fallen through to the next instruction if the value is numerically zero and
\* jumped (to the place its address gives) if it is not.
C17_JnzTestsZero ==
  (Executed("Jnz") /\ ev.depth > 0 /\ ~ev.flag)
  => /\ mode = "run" /\ ~loc.brk /\ Depth(M) = ev.depth - 1
     /\ IF IsZero(ev.accu) THEN loc.spc = ev.spc + 1
        ELSE loc.spc \in {ev.ins.addr, ev.ins.addr + 1}

\* The part of C17 the code keeps: Real 0 falls through, Reals other than 0
\* and Complex values with a nonzero part jump, and the value is popped.
C17_RealZeroFallsThrough ==
  (Executed("Jnz") /\ ev.depth > 0 /\ ~ev.flag /\ ev.accu # Complex(0, 0))
  => /\ mode = "run" /\ ~loc.brk /\ Depth(M) = ev.depth - 1
     /\ IF IsZero(ev.accu) THEN loc.spc = ev.spc + 1
        ELSE loc.spc \in {ev.ins.addr, ev.ins.addr + 1}


\* ------------------------------------------------------------- C18
\* C18: a Ret executed on an empty return stack breaks the loop of run and
\* changes nothing else; once the loop is broken the run only returns; the
\* process is then idle with the program counter at the end of the Program, and
\* the run of the next line starts at the first instruction that line appended:
\* `1 p`, read with room on the stack, prints 1 and pushes it.
C18_RetOnEmptyAborts ==
  /\ [][ (Executes("Ret") /\ r.ret_stack = <<>>)
         => (mode' = "run" /\ loc'.brk /\ r' = r /\ loc'.accu = loc.accu) ]_vars
  /\ [][ (mode = "run" /\ loc.brk) => ev'.kind \in {"return", "ctrlc"} ]_vars
  /\ []((hist.retfault /\ ev.kind = "return")
          => (mode \in {"idle", "parse"} /\ r.pc = Len(r.prog)))
  /\ []((hist.afterret /\ ev.kind = "eol" /\ mode = "run")
          => (p.instructions # <<>> /\ loc.spc + Len(p.instructions) = Len(r.prog)
              /\ Fetch(M) = p.instructions[1]))
  /\ []((hist.afterret /\ Idle /\ hist.line = <<"1", "p">> /\ ~hist.pending0
           /\ hist.depth0 + 1 < MAX_STACK)
          => (lastout = Double(1)
              /\ OperandStack(M) = Append(hist.stack0, Double(1))))

\* The line before faulted at a Ret on an empty return stack, and the line
\* `1 p` has since run to its end and printed 1.
C18_Witness ==
  /\ Idle /\ ev.kind = "return" /\ hist.afterret /\ hist.line = <<"1", "p">>
  /\ lastout = Double(1) /\ Top(M) = Double(1) /\ ~loc.brk


\* ------------------------------------------------------------- C19
\* Two Reals are on top: b below, a on top.
TwoReals ==
  Len(r.stack) >= 2 /\ loc.accu.t = "Double" /\ Last(r.stack).t = "Double"
\* Values the line pushes, with the literal the line before may have left.
Room(n) == hist.depth0 + (IF hist.pending0 THEN 1 ELSE 0) + n < MAX_STACK

\* C19: on Reals b, a (a on top) Sub leaves b - a and Div leaves the q with
\* q * a = b in place of the two, the stack one shallower; `10 6 4 - /`, read
\* at top level with room for its three values, leaves 5 on top.
C19_SubDivOperandOrder ==
  /\ [][ (Executes("Sub") /\ TwoReals)
         => /\ loc'.accu = Double(Last(r.stack).re - loc.accu.re)
            /\ r'.stack = Front(r.stack) /\ ~loc'.brk ]_vars
  /\ [][ (Executes("Div") /\ TwoReals)
         => /\ loc'.accu.t = "Double"
            /\ loc'.accu.re * loc.accu.re = Last(r.stack).re
            /\ r'.stack = Front(r.stack) /\ ~loc'.brk ]_vars
  /\ []((Idle /\ hist.line = <<"10", "6", "4", "-", "/">> /\ hist.top /\ Room(3))
          => Top(M) = Double(5))

\* `10 6 4 - /` has run on a stack that held a value and left 5 above it.
C19_Witness ==
  /\ Idle /\ ev.kind = "return" /\ hist.line = <<"10", "6", "4", "-", "/">>
  /\ hist.depth0 = 1 /\ Depth(M) = 2 /\ Top(M) = Double(5) /\ ~loc.brk

\* ------------------------------------------------------------- C20
\* b op a, for the comparison instruction op
Truth(op, b, a) ==
  \/ op = "Gt" /\ b > a
  \/ op = "Lt" /\ b < a
  \/ op = "Ge" /\ b >= a
  \/ op = "Le" /\ b <= a
  \/ op = "Eq" /\ b = a

\* C20: on Reals b, a (a on top) a comparison leaves Real 1 if b op a and
\* Real 0 if not in place of the two; `5 4 >` leaves 1 and `4 5 >` leaves 0.
C20_ComparisonsGiveOneOrZero ==
  /\ [][ \A op \in CmpOps :
           (Executes(op) /\ TwoReals)
           => /\ loc'.accu = (IF Truth(op, Last(r.stack).re, loc.accu.re)
                              THEN Double(1) ELSE Double(0))
              /\ r'.stack = Front(r.stack) /\ ~loc'.brk ]_vars
  /\ []((Idle /\ hist.line = <<"5", "4", ">">> /\ hist.top /\ Room(2))
          => Top(M) = Double(1))
  /\ []((Idle /\ hist.line = <<"4", "5", ">">> /\ hist.top /\ Room(2))
          => Top(M) = Double(0))

\* `4 5 >` has run and left 0 where it pushed 4 and 5.
C20_Witness ==
  /\ Idle /\ ev.kind = "return" /\ hist.line = <<"4", "5", ">">>
  /\ Depth(M) = hist.depth0 + 1 /\ Top(M) = Double(0) /\ ~loc.brk


\* ------------------------------------------------------------- C21
\* C21: a Jnz that popped a nonzero value with the flag clear (a taken
\* back-edge) of a loop with a body leaves the run at the instruction compiled
\* from the first token after its "[": the index at which the instruction
\* compiled next after that "[" was stored.
C21_BackEdgeResumesAtBodyStart ==
  (Executed("Jnz") /\ ev.depth > 0 /\ ~ev.flag /\ ev.accu # Double(0)
     /\ ev.ins.addr \in DOMAIN hist.bodyat /\ hist.bodyat[ev.ins.addr] < ev.spc)
  => (mode = "run" /\ loc.spc = hist.bodyat[ev.ins.addr])

\* The part of C21 the code keeps: when a real literal stood right before the
\* "[" (it was pending and went into the buffer at the "["), the back-edge
\* resumes at the first instruction of the body.
C21_AfterPendingLiteral ==
  (Executed("Jnz") /\ ev.depth > 0 /\ ~ev.flag /\ ev.accu # Double(0)
     /\ ev.ins.addr \in DOMAIN hist.bodyat
     /\ hist.bodyat[ev.ins.addr] = ev.ins.addr + 1)
  => (mode = "run" /\ loc.spc = hist.bodyat[ev.ins.addr])

\* In the counting loops the index bodyat gives holds the body's first
\* instruction, Literal 1, when the line runs.
C21_BodyStartIsFirstToken ==
  (mode = "run" /\ cont = "eol" /\ hist.top
     /\ hist.line \in {LoopLine(n) : n \in 1..MaxN} \cup {DupLoopLine(n) : n \in 1..MaxN})
  => \E a \in DOMAIN hist.bodyat :
       /\ hist.bodyat[a] < Len(r.prog)
       /\ r.prog[hist.bodyat[a] + 1] = Literal(Double(1))
       /\ r.prog[Len(r.prog)] = Jnz(a)

\* What C21 promises of `n dup [ 1 - dup ]`: n iterations of the whole body,
\* which count the copy of n down to 0 above n.
C21_DupLoopRunsNTimes ==
  \A n \in 1..MaxN :
    (Idle /\ hist.line = DupLoopLine(n) /\ hist.top /\ hist.clean /\ ~hist.pending0
       /\ hist.depth0 + 3 < MAX_STACK)
    => (hist.jnzs = n /\ Depth(M) = hist.depth0 + 2 /\ Top(M) = Double(0))

\* ------------------------------------------------------------- C22
\* C22: when "[" has been processed and a token of the body follows, the
\* address on top of the loop-address stack is the index at which the
\* instruction compiled next (the one of the first token after "[") is stored.
C22_LoopOpenRecordsBodyStart ==
  (ev.kind = "token" /\ ev.tok = "[" /\ mode = "parse"
     /\ line # <<>> /\ Head(line) # "]")
  => Last(p.loop_addr) = StoreAt(M)

\* The part of C22 the code keeps: the address recorded is that index unless a
\* real literal stood right before the "["; then it is one less.
C22_OffByThePendingLiteral ==
  (ev.kind = "token" /\ ev.tok = "[" /\ mode = "parse"
     /\ Last(p.loop_addr) # StoreAt(M))
  => /\ Last(p.loop_addr) + 1 = StoreAt(M)
     /\ \E k \in 1..Len(p.instructions) :
          p.instructions[k].op = "Literal" /\ p.instructions[k].lit.t = "Double"

\* ------------------------------------------------------------- C23
\* The pending real literal as the instruction it becomes.
Pending(m) ==
  IF m.p.last_number.t = "Double" THEN <<Literal(m.p.last_number)>> ELSE <<>>
\* Everything compiled so far in the order it is (or will be) stored: the
\* Program, the buffer where run has not yet appended it, the pending literal.
Stored(m) ==
  IF m.mode = "run" THEN m.r.prog ELSE m.r.prog \o m.p.instructions
Stream(m) == Stored(m) \o Pending(m)

\* C23: every step leaves what was compiled before it where it is and puts
\* what it compiles behind it: the stored instructions stay a prefix, and so
\* does the pending literal unless an imaginary token merges with it.
C23_TokenOrder ==
  [][ /\ IsPrefix(Stored(M), Stream(M'))
      /\ ~(mode = "parse" /\ line # <<>> /\ Head(line) \in DOMAIN ImagTok)
           => IsPrefix(Stream(M), Stream(M')) ]_vars

\* The case C23 names: a token that emits no instruction ("[", help, the name
\* after ":", a word that resolves to nothing) leaves everything compiled
\* before it, the pending literal included, in its order.
C23_SilentTokensKeepOrder ==
  [][ (mode = "parse" /\ line # <<>> /\ mode' = "parse"
         /\ Head(line) \in {"[", "help"} \cup BareWords
         /\ ~(p.procedure_state # 1 /\ Head(line) \in DOMAIN p.procedure_lut))
      => Stream(M') = Stream(M) ]_vars

\* ------------------------------------------------------------- C24
\* C24: when parse_line has returned from a line read and ended outside a
\* definition, no real literal is still waiting to be compiled; the line `5`,
\* read with room for its value, leaves 5 on top of the stack it found.
C24_LineFullyExecuted ==
  /\ (Idle /\ nread > 0 /\ hist.top /\ p.procedure_state = 0)
       => (p.last_number.t # "Double" /\ p.instructions = <<>>)
  /\ (Idle /\ hist.line = <<"5">> /\ hist.top /\ Room(1))
       => OperandStack(M) = Append(hist.stack0, Double(5))

\* The part of C24 the code keeps: a line of well-formed tokens that ends in
\* anything but a real literal leaves nothing waiting.
C24_NothingPendingAfterOperation ==
  (Idle /\ nread > 0 /\ hist.top /\ p.procedure_state = 0
     /\ hist.line # <<>> /\ Last(hist.line) \notin DOMAIN RealTok
     /\ \A k \in 1..Len(hist.line) : hist.line[k] \notin BadRealTok \cup BadImagTok)
  => (p.last_number.t # "Double" /\ p.instructions = <<>>)

\* ------------------------------------------------------------- C25
\* The unary operators and the variants each takes.
UnaryOn ==
  [op \in {"Abs", "Loge", "Expe"} |-> {"Double", "Complex"}] @@
  [op \in {"Floor", "Ceil", "Round"} |-> {"Double"}] @@
  [op \in {"Real", "Imag"} |-> {"Complex"}]

\* C25: a unary operator executed on a stack whose top is of a variant it
\* takes changes the top value only: the run goes on, the depth and every
\* value below the top are as before.
C25_UnaryReplacesTop ==
  [][ \A op \in DOMAIN UnaryOn :
        (Executes(op) /\ r.stack # <<>> /\ loc.accu.t \in UnaryOn[op])
        => (r'.stack = r.stack /\ ~loc'.brk /\ loc'.accu.t \in {"Double", "Complex"}) ]_vars

\* The part of C25 the code keeps: every case but the logarithm of a Real.
C25_AllButLogeOfReal ==
  [][ \A op \in DOMAIN UnaryOn :
        (Executes(op) /\ r.stack # <<>> /\ loc.accu.t \in UnaryOn[op]
           /\ ~(op = "Loge" /\ loc.accu.t = "Double"))
        => (r'.stack = r.stack /\ ~loc'.brk /\ loc'.accu.t \in {"Double", "Complex"}) ]_vars

\* ------------------------------------------------------------- C26
\* s with its top three values c, b, a (a on top) left as b, a, c.
Rotated(s) ==
  LET n == Len(s) IN SubSeq(s, 1, n - 3) \o <<s[n - 1], s[n], s[n - 2]>>

\* C26: Rot executed on a stack of three or more values ..., c, b, a leaves
\* ..., b, a, c: the depth and the values below the top three are unchanged,
\* and the run goes on.
C26_RotBringsThirdToTop ==
  [][ (Executes("Rot") /\ Depth(M) >= 3)
      => /\ OperandStackNext = Rotated(OperandStack(M))
         /\ Len(r'.stack) = Len(r.stack) /\ ~loc'.brk ]_vars

\* Rot has run on 4, 1, 2, 3 and left 4, 2, 3, 1.
C26_Witness ==
  /\ Executed("Rot") /\ ev.depth = 4 /\ ev.accu = Double(3) /\ ~loc.brk
  /\ OperandStack(M) = <<Double(4), Double(2), Double(3), Double(1)>>

\* ------------------------------------------------------------- C27
\* C27: a Call puts its own index on the return stack and enters the
\* subroutine; the Ret that answers the latest unanswered Call of the run
\* leaves the run at the instruction right after that Call, with the return
\* stack as deep as that Call found it, so nested calls return last-in
\* first-out.
C27_RetReturnsAfterCall ==
  /\ [][ Executes("Call")
         => /\ r'.ret_stack = Append(r.ret_stack, loc.spc)
            /\ loc'.spc = Fetch(M).addr /\ ~loc'.brk
            /\ r'.stack = r.stack /\ loc'.accu = loc.accu ]_vars
  /\ [][ (Executes("Ret") /\ hist.calls # <<>>)
         => /\ mode' = "run" /\ ~loc'.brk
            /\ loc'.spc = Last(hist.calls).at + 1
            /\ Len(r'.ret_stack) = Last(hist.calls).depth
            /\ r.prog[Last(hist.calls).at + 1].op = "Call"
            /\ r'.stack = r.stack /\ loc'.accu = loc.accu ]_vars

\* In `5 sq p`, with sq calling f, the Ret of f has returned into sq: the Call
\* of sq is still unanswered and the run stands at the Mul after the Call of f.
C27_Witness ==
  /\ Executed("Ret") /\ mode = "run" /\ ~loc.brk /\ hist.line = <<"5", "sq", "p">>
  /\ Len(hist.calls) = 1 /\ Len(r.ret_stack) = 1
  /\ loc.spc < Len(r.prog) /\ Fetch(M).op = "Mul"
  /\ r.prog[loc.spc].op = "Call"

\* ------------------------------------------------------------- C28
\* Two numbers are on top: b below, a on top.
TwoNumbers ==
  /\ Len(r.stack) >= 2
  /\ loc.accu.t \in {"Double", "Complex"} /\ Last(r.stack).t \in {"Double", "Complex"}

\* q is b op a, the parts of a Real read as (re, 0).
IsResult(op, q, b, a) ==
  CASE op = "Add" -> q.re = b.re + a.re /\ q.im = b.im + a.im
    [] op = "Sub" -> q.re = b.re - a.re /\ q.im = b.im - a.im
    [] op = "Mul" -> /\ q.re = b.re * a.re - b.im * a.im
                     /\ q.im = b.re * a.im + b.im * a.re
    [] op = "Div" -> /\ q.re * a.re - q.im * a.im = b.re
                     /\ q.re * a.im + q.im * a.re = b.im

\* C28: Add, Sub, Mul and Div executed on two numbers b, a replace them by one
\* result: a Real if both are Reals, a Complex otherwise, equal to b op a with
\* a Real operand taken as Complex(re, 0).
C28_PromotionRule ==
  [][ \A op \in ArithOps :
        (Executes(op) /\ TwoNumbers)
        => /\ r'.stack = Front(r.stack) /\ ~loc'.brk
           /\ loc'.accu.t = (IF loc.accu.t = "Double" /\ Last(r.stack).t = "Double"
                              THEN "Double" ELSE "Complex")
           /\ IsResult(op, loc'.accu, Last(r.stack), loc.accu) ]_vars

\* `3 1 2j +` has added Complex(1, 2) to the Real 3 and left Complex(4, 2).
C28_Witness ==
  /\ Idle /\ ev.kind = "return" /\ hist.line = <<"3", "1", "2j", "+">> /\ ~loc.brk
  /\ Depth(M) = hist.depth0 + 1 /\ Top(M) = Complex(4, 2)

\* ------------------------------------------------------------- C29
\* This step processes an imaginary literal in the number branch.
ImagNext ==
  /\ mode = "parse" /\ line # <<>> /\ Head(line) \in DOMAIN ImagTok
  /\ p.procedure_state # 1 /\ ev'.kind = "token"
\* The token before it in the input: a real literal, or anything else (another
\* token of the line, or none: the line begins, or a definition's name does).
AfterRealTok == ev.kind = "token" /\ ev.tok \in DOMAIN RealTok /\ hist.name # ev.tok
AfterOther ==
  \/ ev.kind = "token" /\ ev.tok \notin DOMAIN RealTok
  \/ ev.kind = "read"

\* C29: an imaginary token right after a real token appends the one literal
\* Complex(re, im) and leaves no real literal behind; after any other token,
\* or as the first token read, it appends Complex(0, im).
C29_ImaginaryMerges ==
  [][ /\ (ImagNext /\ AfterRealTok)
        => /\ p'.instructions =
                Append(p.instructions,
                       Literal(Complex(RealTok[ev.tok], ImagTok[Head(line)])))
           /\ p'.last_number = None
      /\ (ImagNext /\ AfterOther)
        => /\ p'.instructions =
                Append(p.instructions, Literal(Complex(0, ImagTok[Head(line)])))
           /\ p'.last_number = None ]_vars

\* The part of C29 the code keeps: the same, where the imaginary token is not
\* the first of its line and does not follow a register word that is too long.
C29_WithinALine ==
  [][ /\ (ImagNext /\ AfterRealTok)
        => /\ p'.instructions =
                Append(p.instructions,
                       Literal(Complex(RealTok[ev.tok], ImagTok[Head(line)])))
           /\ p'.last_number = None
      /\ (ImagNext /\ ev.kind = "token" /\ ev.tok \notin DOMAIN RealTok \cup LongRegWord)
        => /\ p'.instructions =
                Append(p.instructions, Literal(Complex(0, ImagTok[Head(line)])))
           /\ p'.last_number = None ]_vars

\* ------------------------------------------------------------- C30
\* Element k (0-based) of a vector, as the value Vload gives.
Elem(v, k) ==
  IF v.data_type = "Complex" THEN Complex(v.vector[2 * k + 1], v.vector[2 * k + 2])
  ELSE Double(v.vector[k + 1])
\* The top of the stack is a Real index of an element of vector x.
IndexOnTop(x) ==
  /\ r.stack # <<>> /\ loc.accu.t = "Double"
  /\ loc.accu.re >= 0 /\ loc.accu.re < VecLen(r.vectors[x])

\* C30: Vsave with an index k < N on top and below it a value v of the
\* vector's type stores v as element k, keeps the vector's type and length,
\* every other element and every other vector, and pops both; Vload with an
\* index k < N on top puts element k in its place and changes no vector.
\* `2 vreala 7 1 vsavea 1 vloada`, read with room on the stack, leaves 7 on
\* top and the vector as 0, 7.
C30_VsaveVloadRoundTrip ==
  /\ [][ \A x \in RegIds :
           (Executes("Vsave") /\ Fetch(M).reg = x /\ IndexOnTop(x)
              /\ Len(r.stack) >= 2 /\ Last(r.stack).t = r.vectors[x].data_type)
           => /\ ~loc'.brk /\ mode' = "run"
              /\ Elem(r'.vectors[x], loc.accu.re) = Last(r.stack)
              /\ r'.vectors[x].data_type = r.vectors[x].data_type
              /\ Len(r'.vectors[x].vector) = Len(r.vectors[x].vector)
              /\ \A j \in 0..(VecLen(r.vectors[x]) - 1) :
                   j # loc.accu.re => Elem(r'.vectors[x], j) = Elem(r.vectors[x], j)
              /\ \A y \in RegIds \ {x} : r'.vectors[y] = r.vectors[y]
              /\ Len(r'.stack) = Len(r.stack) - 2 ]_vars
  /\ [][ \A x \in RegIds :
           (Executes("Vload") /\ Fetch(M).reg = x /\ IndexOnTop(x))
           => /\ ~loc'.brk /\ mode' = "run"
              /\ loc'.accu = Elem(r.vectors[x], loc.accu.re)
              /\ r'.vectors = r.vectors /\ r'.stack = r.stack ]_vars
  /\ []((Idle /\ hist.line = <<"2", "vreala", "7", "1", "vsavea", "1", "vloada">>
           /\ hist.top /\ Room(2))
          => (Top(M) = Double(7) /\ r.vectors["a"].vector = <<0, 7>>))

\* Complex(3, 4) went into element 1 of a complex vector of length 2 and came
\* back from it, with the real vector b of length 2 beside it untouched.
C30_Witness ==
  /\ Executed("Vload") /\ ev.ins.reg = "a" /\ ev.accu = Double(1) /\ ~loc.brk
  /\ loc.accu = Complex(3, 4)
  /\ r.vectors["a"] = [data_type |-> "Complex", vector |-> <<0, 0, 3, 4>>]
  /\ r.vectors["b"] = [data_type |-> "Double", vector |-> <<0, 0>>]
  /\ hist.line = <<"2", "vrealb", "2", "vcplxa", "3", "4j", "1", "vsavea", "1", "vloada">>

\* ------------------------------------------------------------- C31
\* C31: outside run (main's read loop idle, or parse_line between tokens) the
\* program counter is the Program's length; a run appends the buffer to the
\* Program and starts at the first instruction it appended.
C31_CounterAtProgramEnd ==
  /\ [](mode \in {"idle", "parse"} => r.pc = Len(r.prog))
  /\ [][ (mode # "run" /\ mode' = "run")
         => /\ r'.prog = r.prog \o p.instructions
            /\ loc'.spc = Len(r.prog) ]_vars

\* A second statement's run was broken before its last instruction (by a
\* fault or by cancellation) and the interpreter is idle with the counter at
\* the Program's end.
C31_Witness ==
  /\ Idle /\ ev.kind = "return" /\ nread = 2 /\ loc.brk
  /\ loc.spc + 1 < Len(r.prog) /\ r.pc = Len(r.prog) /\ hist.base < r.pc

\* ------------------------------------------------------------- C32
\* C32: whenever the interpreter is idle the return stack is empty; and a Ret
\* never takes a return address that no Call of its own run has pushed.
C32_ReturnStackEmptyWhenIdle ==
  /\ [](Idle => r.ret_stack = <<>>)
  /\ [][ (Executes("Ret") /\ r.ret_stack # <<>>) => hist.calls # <<>> ]_vars

\* The part of C32 the code keeps: a run that ends with no Call unanswered
\* leaves the return stack as deep as it found it.
C32_BalancedRunKeepsDepth ==
  [][ (mode = "run" /\ mode' # "run" /\ hist.calls = <<>> /\ ev'.kind = "return")
      => r'.ret_stack = r.ret_stack ]_vars

\* ------------------------------------------------------------- C33
\* The literals and the stack-shape operations on a plain stack s (a sequence,
\* top last): the values each needs and what it leaves.
ShapeOps == {"Literal", "Dup", "Drop", "Over", "Rot", "Swap", "Clear"}
PlainNeed(op) ==
  CASE op \in {"Dup", "Drop"} -> 1
    [] op \in {"Over", "Swap"} -> 2
    [] op = "Rot" -> 3
    [] OTHER -> 0
PlainStep(i, s) ==
  LET n == Len(s) IN
  CASE i.op = "Literal" -> Append(s, i.lit)
    [] i.op = "Dup" -> Append(s, s[n])
    [] i.op = "Drop" -> SubSeq(s, 1, n - 1)
    [] i.op = "Over" -> Append(s, s[n - 1])
    [] i.op = "Rot" -> SubSeq(s, 1, n - 3) \o <<s[n - 1], s[n], s[n - 2]>>
    [] i.op = "Swap" -> SubSeq(s, 1, n - 2) \o <<s[n], s[n - 1]>>
    [] i.op = "Clear" -> <<>>

\* A sequence of them run on a plain stack: whether none underflowed, the
\* stack left, and the deepest the stack has been.
RECURSIVE PlainRun(_, _, _)
PlainRun(is, s, peak) ==
  IF is = <<>> THEN [ok |-> TRUE, s |-> s, peak |-> peak]
  ELSE IF Len(s) < PlainNeed(Head(is).op) THEN [ok |-> FALSE, s |-> s, peak |-> peak]
  ELSE LET t == PlainStep(Head(is), s) IN
       PlainRun(Tail(is), t, IF Len(t) > peak THEN Len(t) ELSE peak)

\* The line just run consists of literals and stack-shape operations, ends in
\* an operation, and was read at top level with nothing pending.
ShapeLine ==
  /\ hist.top /\ ~hist.pending0 /\ hist.line # <<>> /\ PlainBody(hist.line)
  /\ Last(hist.line) \notin DOMAIN RealTok
  /\ \A k \in 1..Len(hist.line) : CompileTok(hist.line[k]).op \in ShapeOps

\* C33: every literal or stack-shape operation executed on a stack that holds
\* the values it needs leaves in the runner's representation (the stack vector
\* without its bottom slot, then the accumulator) what the same operation
\* leaves on a plain stack holding the same values; so a line of such
\* operations that does not underflow on a plain stack, nor fill the stack,
\* leaves what the plain stack holds after it.
C33_CachedAccumulatorIsAStack ==
  /\ [][ \A op \in ShapeOps :
           (Executes(op) /\ Depth(M) >= PlainNeed(op))
           => OperandStackNext = PlainStep(Fetch(M), OperandStack(M)) ]_vars
  /\ []((Idle /\ ShapeLine)
          => LET q == PlainRun(Compiled(hist.line), hist.stack0, hist.depth0) IN
             (q.ok /\ q.peak < MAX_STACK) => (OperandStack(M) = q.s /\ ~loc.brk))

\* `1 drop 2 3 over swap drop` has run on top of a value and left 2, 2 above
\* it, as the plain stack does.
C33_Witness ==
  /\ Idle /\ ev.kind = "return" /\ ShapeLine /\ ~loc.brk
  /\ hist.line = <<"1", "drop", "2", "3", "over", "swap", "drop">> /\ hist.depth0 = 1
  /\ OperandStack(M) = hist.stack0 \o <<Double(2), Double(2)>>

\* ------------------------------------------------------------- C34
\* C34: every value of the operand stack (the counted slots and the top) is a
\* Real or a Complex in every state.
C34_NoNoneOnStack ==
  \A k \in 1..Len(OperandStack(M)) : OperandStack(M)[k].t \in {"Double", "Complex"}

\* The part of C34 the code keeps: a literal, and an arithmetic or comparison
\* instruction that does not fail, leave a Real or a Complex on top.
C34_ResultsAreNumbers ==
  (ev.kind = "exec" /\ ev.ins.op \in {"Literal"} \cup ArithOps \cup CmpOps
     /\ mode = "run" /\ ~loc.brk)
  => (r.stack # <<>> /\ loc.accu.t \in {"Double", "Complex"})

\* ------------------------------------------------------------- C35
\* C35: the operand stack holds at most MAX_STACK values in every state.
C35_StackBounded == Depth(M) <= MAX_STACK

\* The part of C35 the code keeps: a push that brings the stack to MAX_STACK
\* values or more ends the run, so one run grows a full stack by one value at
\* most.
C35_FullStackEndsRun ==
  [][ (ev'.kind = "exec" /\ Len(r'.stack) > Len(r.stack) /\ Len(r'.stack) >= MAX_STACK)
      => (loc'.brk /\ Len(r'.stack) = Len(r.stack) + 1) ]_vars

\* ------------------------------------------------------------- C36
\* C36: a run during which the cancellation flag is raised ends, and the
\* interpreter comes back to idle.
C36_CancelledRunStops == (stopped /\ mode = "run") ~> Idle

\* The part of C36 the code keeps: the run ends unless its calls nest without
\* end, and a run that executes a Jnz with the flag raised ends there.
C36_CancelledLoopStops ==
  (stopped /\ mode = "run") ~> (Idle \/ Len(r.ret_stack) = MaxRet)
C36_JnzSeesTheFlag ==
  [][ (mode = "run" /\ RunLoops(M) /\ Fetch(M).op = "Jnz" /\ stopped /\ Depth(M) > 0
       /\ ev'.kind = "exec")
      => (loc'.brk /\ ~stopped') ]_vars
\* The return stack fills only under the subroutine that calls itself: no
\* Ret executes on a return stack the model has cut.
C36_DeepOnlyInRecursion ==
  (mode = "run" /\ Len(r.ret_stack) = MaxRet /\ RunLoops(M)) => Fetch(M).op # "Ret"


====
